---- MODULE Spec2Model ----
(***************************************************************************)
(* typeguard_example.py                                                    *)
(*                                                                         *)
(*     from typeguard import typechecked                                   *)
(*                                                                         *)
(*     @typechecked                                                        *)
(*     def multiply(x: int, y: int) -> int:                                *)
(*         return x * y                                                    *)
(*                                                                         *)
(*     print(multiply("hello", 3))                                         *)
(*                                                                         *)
(* The decorated function is modelled as the checked call it becomes: the  *)
(* arguments are tested against the annotations in parameter order, the    *)
(* body `return x * y` runs, the produced value is tested against the      *)
(* return annotation, and the value is handed to the caller.  Python       *)
(* values carry their runtime class; `*` is modelled with Python's         *)
(* dispatch on the operand classes.                                        *)
(*                                                                         *)
(* The decorator comes from the typeguard library, which is imported and   *)
(* not part of this file; its steps here are the library's behaviour for   *)
(* plain class annotations: an isinstance test per parameter, in           *)
(* declaration order, raising at the first failure, and an isinstance test *)
(* of the returned value.                                                  *)
(***************************************************************************)
EXTENDS Integers, Sequences, FiniteSets, TLC

VARIABLES
    mode,        \* "script": the file as written; "client": any caller of multiply
    pc,          \* position of the program / of the call in progress
    annotations, \* multiply.__annotations__, in declaration order
    args,        \* actual arguments of the call in progress
    idx,         \* 1-based index of the next parameter to test
    validated,   \* indexes of the parameters found compatible in this call
    invoked,     \* times the body `return x * y` ran in this call
    retval,      \* value the body produced in this call
    retchecked,  \* the produced value passed the return annotation test
    outcome,     \* how the call ended
    printed,     \* values print() received, oldest first
    ncalls,      \* calls started so far
    ref          \* one earlier completed call, kept for comparison

vars == <<mode, pc, annotations, args, idx, validated, invoked, retval,
          retchecked, outcome, printed, ncalls, ref>>

\* Number of calls a client run makes.
MaxCalls == 2

(***************************************************************************)
(* Python values: the runtime class and the payload.                       *)
(***************************************************************************)
Val(ty, n, s) == [ty |-> ty, n |-> n, s |-> s]

PyInt(n) == Val("int", n, "")

PyBool(b) == Val("bool", IF b THEN 1 ELSE 0, "")

PyStr(s) == Val("str", 0, s)

PyFloat(n) == Val("float", n, "")

PyNone == Val("NoneType", 0, "")

\* An instance of a user class derived from int whose __mul__ yields text:
\*     class IntSub(int):
\*         def __mul__(self, other): return "IntSub"
IntSub(n) == Val("IntSub", n, "")

NoVal == Val("-", 0, "")

\* The actual arguments a caller may pass.
Values ==
    { PyInt(-1), PyInt(0), PyInt(3), PyInt(4), PyBool(TRUE), PyStr("hello"),
      PyFloat(4), PyNone, IntSub(2) }

\* type(v).__mro__, without object.
Mro(ty) ==
    CASE ty = "bool"   -> {"bool", "int"}
      [] ty = "IntSub" -> {"IntSub", "int"}
      [] OTHER         -> {ty}

\* Variant: every value passes the test.
Compatible_Any(v, declared) == TRUE

\* isinstance(v, declared): the test the decorator applies to a plain class.
Compatible(v, declared) == declared \in Mro(v.ty)

\* The annotations of `def multiply(x: int, y: int) -> int`.
Params == << [name |-> "x", type |-> "int"], [name |-> "y", type |-> "int"] >>

Returns == "int"

Annotations == [params |-> Params, returns |-> Returns]

(***************************************************************************)
(* The body: x * y.                                                        *)
(***************************************************************************)
RECURSIVE Repeat(_, _)
\* str.__mul__: s repeated n times, the empty string for n <= 0.
Repeat(s, n) == IF n <= 0 THEN "" ELSE s \o Repeat(s, n - 1)

IsIntLike(v) == "int" \in Mro(v.ty)

Value(v) == [kind |-> "value", val |-> v]

BodyRaises == [kind |-> "raise", val |-> NoVal]

\* Variant: the body adds where it should multiply.
Mul_Add(x, y) == Value(PyInt(x.n + y.n))

\* The result of evaluating x * y, or the TypeError of unsupported operands.
Mul(x, y) ==
    CASE x.ty = "IntSub"                      -> Value(PyStr("IntSub"))
      [] x.ty \in {"int", "bool"} /\ IsIntLike(y)
                                              -> Value(PyInt(x.n * y.n))
      [] x.ty \in {"int", "bool"} /\ y.ty = "float"
                                              -> Value(PyFloat(x.n * y.n))
      [] x.ty = "float" /\ (IsIntLike(y) \/ y.ty = "float")
                                              -> Value(PyFloat(x.n * y.n))
      [] x.ty = "str" /\ IsIntLike(y)         -> Value(PyStr(Repeat(x.s, y.n)))
      [] x.ty \in {"int", "bool"} /\ y.ty = "str"
                                              -> Value(PyStr(Repeat(y.s, x.n)))
      [] OTHER                                -> BodyRaises

(***************************************************************************)
(* Outcomes of a call.                                                     *)
(***************************************************************************)
NoOutcome ==
    [kind |-> "none", val |-> NoVal, what |-> "", declared |-> "", actual |-> ""]

Returned(v) ==
    [kind |-> "return", val |-> v, what |-> "", declared |-> "", actual |-> ""]

\* Variant: the declared and the actual type change places in the error.
TypeMismatch_Swapped(what, declared, v) ==
    [kind |-> "TypeMismatch", val |-> NoVal, what |-> what,
     declared |-> v.ty, actual |-> declared]

\* The error of the decorator: which parameter (or "return"), the declared
\* type, and the class of the value received.
TypeMismatch(what, declared, v) ==
    [kind |-> "TypeMismatch", val |-> NoVal, what |-> what,
     declared |-> declared, actual |-> v.ty]

\* The TypeError the expression x * y itself raises.
OperandError ==
    [kind |-> "OperandError", val |-> NoVal, what |-> "", declared |-> "",
     actual |-> ""]

NoRef == [args |-> <<>>, outcome |-> NoOutcome]

\* The call of line 7.
ScriptArgs == << PyStr("hello"), PyInt(3) >>

Init ==
    /\ mode \in {"script", "client"}
    /\ pc = "idle"
    /\ annotations = Annotations
    /\ args = <<>>
    /\ idx = 1
    /\ validated = {}
    /\ invoked = 0
    /\ retval = NoVal
    /\ retchecked = FALSE
    /\ outcome = NoOutcome
    /\ printed = <<>>
    /\ ncalls = 0
    /\ ref = NoRef

\* A fresh frame for a call with the given arguments.
Enter(a) ==
    /\ args' = a
    /\ idx' = 1
    /\ validated' = {}
    /\ invoked' = 0
    /\ retval' = NoVal
    /\ retchecked' = FALSE
    /\ outcome' = NoOutcome
    /\ pc' = "check_args"
    /\ ncalls' = ncalls + 1

\* multiply(a, b) is called.
Call ==
    /\ pc = "idle"
    /\ ncalls < (IF mode = "script" THEN 1 ELSE MaxCalls)
    /\ \E a \in (IF mode = "script" THEN {ScriptArgs} ELSE Values \X Values) :
          Enter(a)
    /\ UNCHANGED <<mode, annotations, printed, ref>>

\* Variant: an incompatible argument is noted and the checking goes on.
CheckArgStep_WarnOnly(i) ==
    /\ validated' = validated
    /\ idx' = i + 1
    /\ UNCHANGED <<pc, outcome>>

\* Variant: all arguments are examined and the last incompatible one is
\* the one reported.
CheckArgStep_ReportLast(i) ==
    LET bad == { j \in 1..Len(annotations.params) :
                   ~Compatible(args[j], annotations.params[j].type) }
        last == CHOOSE j \in bad : \A k \in bad : k <= j
    IN
    IF Compatible(args[i], annotations.params[i].type)
    THEN /\ validated' = validated \cup {i}
         /\ idx' = i + 1
         /\ UNCHANGED <<pc, outcome>>
    ELSE /\ outcome' = TypeMismatch(annotations.params[last].name,
                                    annotations.params[last].type, args[last])
         /\ pc' = "raised"
         /\ UNCHANGED <<validated, idx>>

\* Variant: the arguments are tested on the first call only; later calls
\* reuse that verdict.
CheckArgStep_FirstCallOnly(i) ==
    LET p == annotations.params[i] IN
    IF ncalls > 1 \/ Compatible(args[i], p.type)
    THEN /\ validated' = validated \cup {i}
         /\ idx' = i + 1
         /\ UNCHANGED <<pc, outcome>>
    ELSE /\ outcome' = TypeMismatch(p.name, p.type, args[i])
         /\ pc' = "raised"
         /\ UNCHANGED <<validated, idx>>

\* The next argument is tested against its annotation; the first
\* incompatible one ends the call with the error.
CheckArgStep(i) ==
    LET p == annotations.params[i] IN
    IF Compatible(args[i], p.type)
    THEN /\ validated' = validated \cup {i}
         /\ idx' = i + 1
         /\ UNCHANGED <<pc, outcome>>
    ELSE /\ outcome' = TypeMismatch(p.name, p.type, args[i])
         /\ pc' = "raised"
         /\ UNCHANGED <<validated, idx>>

\* Variant: the body may run once the first argument was tested.
ArgsDone_Early == idx > 1

\* All arguments were tested: the body may run.
ArgsDone == idx > Len(annotations.params)

\* One argument is tested per step while any is left.
CheckArg ==
    /\ pc = "check_args"
    /\ ~ArgsDone
    /\ CheckArgStep(idx)
    /\ UNCHANGED <<mode, annotations, args, invoked, retval, retchecked,
                   printed, ncalls, ref>>

\* The body `return x * y` runs.
Invoke ==
    /\ pc = "check_args"
    /\ ArgsDone
    /\ invoked' = invoked + 1
    /\ LET r == Mul(args[1], args[2]) IN
         IF r.kind = "value"
         THEN /\ retval' = r.val
              /\ pc' = "check_return"
              /\ UNCHANGED outcome
         ELSE /\ outcome' = OperandError
              /\ pc' = "raised"
              /\ UNCHANGED retval
    /\ UNCHANGED <<mode, annotations, args, idx, validated, retchecked,
                   printed, ncalls, ref>>

\* Variant: the produced value is handed over untested.
CheckReturnStep_Unchecked(v) ==
    /\ retchecked' = TRUE
    /\ outcome' = Returned(v)
    /\ pc' = "returned"

\* Variant: the caller receives what the test returns, not the value.
CheckReturnStep_ReturnsNone(v) ==
    IF Compatible(v, annotations.returns)
    THEN /\ retchecked' = TRUE
         /\ outcome' = Returned(PyNone)
         /\ pc' = "returned"
    ELSE /\ outcome' = TypeMismatch("return", annotations.returns, v)
         /\ pc' = "raised"
         /\ UNCHANGED retchecked

\* Variant: an incompatible produced value makes the wrapper run the body
\* once more.
CheckReturnStep_Retry(v) ==
    IF Compatible(v, annotations.returns)
    THEN /\ retchecked' = TRUE
         /\ outcome' = Returned(v)
         /\ pc' = "returned"
    ELSE IF invoked < 2
    THEN /\ pc' = "check_args"
         /\ UNCHANGED <<outcome, retchecked>>
    ELSE /\ outcome' = TypeMismatch("return", annotations.returns, v)
         /\ pc' = "raised"
         /\ UNCHANGED retchecked

\* The produced value is tested against the return annotation and, when
\* compatible, handed over as it is.
CheckReturnStep(v) ==
    IF Compatible(v, annotations.returns)
    THEN /\ retchecked' = TRUE
         /\ outcome' = Returned(v)
         /\ pc' = "returned"
    ELSE /\ outcome' = TypeMismatch("return", annotations.returns, v)
         /\ pc' = "raised"
         /\ UNCHANGED retchecked

CheckReturn ==
    /\ pc = "check_return"
    /\ CheckReturnStep(retval)
    /\ UNCHANGED <<mode, annotations, args, idx, validated, invoked, retval,
                   printed, ncalls, ref>>

\* The completed call is remembered, or not.
Remember ==
    \/ ref' = [args |-> args, outcome |-> outcome]
    \/ UNCHANGED ref

\* print(...) receives the returned value.
PrintResult ==
    /\ pc = "returned"
    /\ printed' = Append(printed, outcome.val)
    /\ pc' = IF mode = "script" THEN "exit_ok" ELSE "idle"
    /\ Remember
    /\ UNCHANGED <<mode, annotations, args, idx, validated, invoked, retval,
                   retchecked, outcome, ncalls>>

\* The error leaves the call: print() is skipped.  At module level nothing
\* catches it and the interpreter exits; a client goes on.
Propagate ==
    /\ pc = "raised"
    /\ pc' = IF mode = "script" THEN "exit_error" ELSE "idle"
    /\ Remember
    /\ UNCHANGED <<mode, annotations, args, idx, validated, invoked, retval,
                   retchecked, outcome, printed, ncalls>>

Next ==
    \/ Call
    \/ CheckArg
    \/ Invoke
    \/ CheckReturn
    \/ PrintResult
    \/ Propagate

Spec == Init /\ [][Next]_vars

\* The steps of a call run to completion once it has started; whether a
\* caller makes another call is up to the caller.
FairSpec ==
    /\ Spec
    /\ WF_vars(CheckArg)
    /\ WF_vars(Invoke)
    /\ WF_vars(CheckReturn)
    /\ WF_vars(PrintResult)
    /\ WF_vars(Propagate)

(***************************************************************************)
(* Properties.                                                             *)
(***************************************************************************)
\* The classes whose instances are ints.
IsAnInt(v) == v.ty \in {"int", "bool", "IntSub"}

Started == ncalls > 0

Running == pc \in {"check_args", "check_return"}

\* The latest call has ended and its frame shows how.
Ended == Started /\ ~Running

AllArgsInt == \A i \in 1..Len(args) : IsAnInt(args[i])

BadParams == { i \in 1..Len(args) : ~IsAnInt(args[i]) }

FirstBad == CHOOSE i \in BadParams : \A j \in BadParams : i <= j

\* C1: a call with an argument that is not an int never runs the body and
\* ends in a TypeMismatch.
C1_BadArgumentNeverInvokes ==
    (Started /\ BadParams # {}) =>
        /\ invoked = 0
        /\ retval = NoVal
        /\ pc \notin {"check_return", "returned", "exit_ok"}
        /\ Ended => /\ outcome.kind = "TypeMismatch"
                    /\ outcome.what \in {"x", "y"}

C1_Witness ==
    /\ pc = "raised"
    /\ IsAnInt(args[1])
    /\ ~IsAnInt(args[2])
    /\ outcome.kind = "TypeMismatch"
    /\ invoked = 0

\* C2: whenever the body has run, every argument of the call was tested
\* before and found to be an int.
C2_InvokedOnlyAfterValidation ==
    (invoked > 0 \/ pc \in {"check_return", "returned"}) =>
        /\ validated = 1..Len(Params)
        /\ AllArgsInt

C2_Witness ==
    /\ pc = "check_return"
    /\ invoked = 1
    /\ validated = {1, 2}

\* C3: when all arguments are ints and the body's value is an int, the
\* caller receives exactly that value; for plain ints it is the product.
C3_ResultUnchanged ==
    (Ended /\ AllArgsInt /\ invoked > 0 /\ IsAnInt(retval)) =>
        /\ outcome.kind = "return"
        /\ outcome.val = retval
        /\ (\A i \in 1..2 : args[i].ty \in {"int", "bool"}) =>
               outcome.val = [ty |-> "int", n |-> args[1].n * args[2].n,
                              s |-> ""]

C3_Witness ==
    /\ pc = "returned"
    /\ args[1].ty = "int" /\ args[1].n = 3
    /\ args[2].ty = "bool"
    /\ outcome.val.n = 3

\* C4: when all arguments are ints but the body's value is not, the body
\* has run once, the call ends in a TypeMismatch about the return value, and
\* the value reaches neither the caller nor print.
C4_BadReturnValueRejected ==
    (Ended /\ AllArgsInt /\ args[1].ty = "IntSub") =>
        /\ invoked = 1
        /\ retval.ty = "str"
        /\ outcome.kind = "TypeMismatch"
        /\ outcome.what = "return"
        /\ outcome.declared = "int"
        /\ outcome.actual = "str"
        /\ outcome.val = NoVal
        /\ \A k \in 1..Len(printed) : printed[k] # retval

C4_Witness ==
    /\ pc = "raised"
    /\ args[1].ty = "IntSub"
    /\ args[2].ty = "int"
    /\ invoked = 1
    /\ outcome.what = "return"

\* C5: multiply("hello", 3) ends in a TypeMismatch naming the first
\* parameter x, the declared type int and the actual type str.
C5_HelloThreeMismatch ==
    (Ended /\ args = <<[ty |-> "str", n |-> 0, s |-> "hello"],
                       [ty |-> "int", n |-> 3, s |-> ""]>>) =>
        /\ outcome.kind = "TypeMismatch"
        /\ outcome.what = "x"
        /\ outcome.what = Params[1].name
        /\ outcome.declared = "int"
        /\ outcome.actual = "str"

C5_Witness ==
    /\ pc = "raised"
    /\ args[1].s = "hello"
    /\ args[2].ty = "int" /\ args[2].n = 3

\* C6: multiply(3, 4) passes both argument tests and the return test and
\* returns 12.
C6_ThreeTimesFour ==
    (Ended /\ args = <<[ty |-> "int", n |-> 3, s |-> ""],
                       [ty |-> "int", n |-> 4, s |-> ""]>>) =>
        /\ validated = {1, 2}
        /\ retchecked
        /\ outcome.kind = "return"
        /\ outcome.val = [ty |-> "int", n |-> 12, s |-> ""]

C6_Witness ==
    /\ pc = "returned"
    /\ args[1].ty = "int" /\ args[1].n = 3
    /\ args[2].ty = "int" /\ args[2].n = 4
    /\ outcome.val.n = 12

C7_TwoOutcomes ==
    /\ invoked <= 1
    /\ Ended => outcome.kind \in {"return", "TypeMismatch"}
    /\ Running => outcome.kind = "none"

C7_MismatchIsTerminal ==
    (outcome.kind = "TypeMismatch") =>
        \/ /\ ncalls' = ncalls
           /\ outcome' = outcome
           /\ invoked' = invoked
           /\ printed' = printed
           /\ pc' \in {"idle", "exit_error"}
        \/ /\ ncalls' = ncalls + 1
           /\ pc = "idle"

C8_FirstOffenderReported ==
    (Ended /\ BadParams # {}) =>
        /\ outcome.what = Params[FirstBad].name
        /\ outcome.actual = args[FirstBad].ty
        /\ idx = FirstBad
        /\ validated = 1..(FirstBad - 1)

C8_Witness ==
    /\ pc = "raised"
    /\ BadParams = {1, 2}
    /\ args[1].ty # args[2].ty
    /\ outcome.what = "x"

\* C9: the file as written ends in the error; print never receives a value
\* and "hellohellohello" is never computed.
C9_ScriptPrintsNothing ==
    (mode = "script") =>
        /\ printed = <<>>
        /\ retval = NoVal
        /\ invoked = 0
        /\ pc # "exit_ok"
        /\ pc = "exit_error" => outcome.kind = "TypeMismatch"
        /\ pc = "exit_error" \/ ENABLED Next

C9_Witness ==
    /\ mode = "script"
    /\ pc = "exit_error"
    /\ args[1].s = "hello"
    /\ outcome.kind = "TypeMismatch"

C10_SameArgsSameOutcome ==
    (Ended /\ ref # NoRef /\ ref.args = args) => ref.outcome = outcome

====
